---- MODULE Spec2Model ----
(***************************************************************************)
(* Model of the AdobeState client of aio-lib-state (lib/AdobeState.js):    *)
(* the seven public operations get / put / delete / deleteAll / any /      *)
(* stats / list, their client-side validation, the requests they hand to   *)
(* the HTTP executor (HttpExponentialBackoff.exponentialBackoff) and the   *)
(* classification of the executor's answer by _wrap / handleResponse.      *)
(*                                                                         *)
(* The remote service and the executor are the environment: every answer   *)
(* is a complete fetch Response (status, headers and body fully received)  *)
(* or a rejection of the executor's promise.                               *)
(***************************************************************************)
EXTENDS Integers, Sequences, FiniteSets

VARIABLES client, calls, iters, process, stores, heap, server, written,
          inMemoryInstance, cosmosStores, cosmosClients, cosmosInit

vars == <<client, calls, iters, process, stores, heap, server, written,
         inMemoryInstance, cosmosStores, cosmosClients, cosmosInit>>

\* the service behind the executor, and what the caller has stored in it
remote == <<server, written>>

\* what AdobeState.init reads and makes: the process, the init calls, the objects made
\* what the init of the earlier, Cosmos-backed revisions keeps and makes
cosmos == <<inMemoryInstance, cosmosStores, cosmosClients, cosmosInit>>

setup == <<process, stores, heap, cosmos>>

(***************************************************************************)
(* JavaScript values.  Every value is a record of the same shape so that   *)
(* values of different JavaScript types can be compared:                   *)
(*   t    : the typeof-like tag                                            *)
(*   body : for a string, its text as a sequence of atoms (one character   *)
(*          each, except the literal words the code itself writes)         *)
(*   rep  : the text is body repeated rep times (long strings)             *)
(*   n    : for a number its integer part; for the decimal rendering of a  *)
(*          number (the string String(n)) the number rendered              *)
(*   frac : a number with a fractional part                                *)
(***************************************************************************)
JsVal(t, body, rep, n, frac) == [t |-> t, body |-> body, rep |-> rep, n |-> n, frac |-> frac]

Undef == JsVal("undefined", <<>>, 0, 0, FALSE)

Null == JsVal("null", <<>>, 0, 0, FALSE)

Num(n) == JsVal("number", <<>>, 0, n, FALSE)

Frac(n) == JsVal("number", <<>>, 0, n, TRUE)

Str(body) == JsVal("string", body, 1, 0, FALSE)

Rep(body, k) == JsVal("string", body, k, 0, FALSE)

Buf == JsVal("object", <<>>, 0, 0, FALSE)

\* the string String(n) of an integer n, e.g. "0" for 0
Digits(n) == JsVal("string", <<"#">>, 1, n, FALSE)

\* a query parameter that is not part of the URL
NoParam == JsVal("absent", <<>>, 0, 0, FALSE)

IsString(v) == v.t = "string"

IsInteger(v) == v.t = "number" /\ ~v.frac

StrLen(v) == Len(v.body) * v.rep

\* the value taken as a condition: if (v), !v
Truthy(v) ==
  CASE v.t = "undefined" -> FALSE
    [] v.t = "null" -> FALSE
    [] v.t = "number" -> v.n # 0 \/ v.frac
    [] v.t = "string" -> StrLen(v) > 0
    [] OTHER -> TRUE

\* String(v), as template literals and URLSearchParams apply it
ToStr(v) ==
  CASE v.t = "string" -> v
    [] v.t = "undefined" -> Str(<<"undefined">>)
    [] v.t = "null" -> Str(<<"null">>)
    [] v.t = "number" /\ ~v.frac -> Digits(v.n)
    [] v.t = "number" /\ v.frac -> JsVal("string", <<"#", ".", "#">>, 1, v.n, FALSE)
    [] OTHER -> Str(<<"[object]">>)

(***************************************************************************)
(* Constants of lib/constants.js                                           *)
(***************************************************************************)
MAX_KEY_SIZE == 1024

MAX_TTL_SECONDS == 31536000

Alnum == {"a", "b", "k", "Z", "0", "1"}

\* ^[a-zA-Z0-9-_.]{1,1024}$
KeyChars == Alnum \cup {"-", "_", "."}

\* the key character class plus the glob wildcard
MatchChars == KeyChars \cup {"*"}

Matches(v, chars) ==
  /\ \A j \in 1..Len(v.body) : v.body[j] \in chars
  /\ StrLen(v) >= 1
  /\ StrLen(v) <= MAX_KEY_SIZE

REGEX_PATTERN_STORE_KEY(v) == Matches(v, KeyChars)

REGEX_PATTERN_MATCH_KEY(v) == Matches(v, MatchChars)

REQUEST_ID_HEADER == "x-request-id"

(***************************************************************************)
(* The process the library is loaded in: the environment variables init    *)
(* reads, the environment getCliEnv() reports, and the constants           *)
(* lib/constants.js fixes when it is loaded.                               *)
(***************************************************************************)
ALLOWED_REGIONS == <<Str(<<"amer">>), Str(<<"apac">>), Str(<<"emea">>)>>

\* the <region> placeholder of an endpoint template
Placeholder == Str(<<"<region>">>)

\* ENDPOINTS[env]: a template is the sequence of its parts
ENDPOINTS(env) ==
  IF env = "prod"
    THEN <<Str(<<"https://storage-state-">>), Placeholder, Str(<<".app-builder.adp.adobe.io">>)>>
    ELSE <<Str(<<"https://storage-state-">>), Placeholder, Str(<<".stg.app-builder.adp.adobe.io">>)>>

Process(owNamespace, owApiKey, env, customEndpoint, stageRegion) ==
  [OW_NAMESPACE |-> owNamespace, OW_API_KEY |-> owApiKey, AIO_CLI_ENV |-> env,
   CUSTOM_ENDPOINT |-> customEndpoint, ALLOWED_STAGE_REGION |-> stageRegion]

\* no variable set: the production environment, no endpoint override
DefaultProcess == Process(Undef, Undef, "prod", Undef, ALLOWED_REGIONS[1])

getCliEnv(proc) == proc.AIO_CLI_ENV

\* endpoint.replaceAll(/<region>/gi, region)
replaceAll(endpoint, region) ==
  [j \in DOMAIN endpoint |-> IF endpoint[j] = Placeholder THEN ToStr(region) ELSE endpoint[j]]

\* getRegionalEndpoint (endpoint, region)
getRegionalEndpoint(proc, endpoint, region) ==
  IF Truthy(proc.CUSTOM_ENDPOINT) THEN <<proc.CUSTOM_ENDPOINT>> ELSE replaceAll(endpoint, region)

(***************************************************************************)
(* The client object.  ref is the identity of the object `new` makes; the  *)
(* constructor computes the auth header once and makes its own executor.   *)
(***************************************************************************)
Base64(apikey) == [b64 |-> apikey]

\* constructor (namespace, apikey, env, region)
AdobeState(proc, ref, namespace, apikey, env, region) ==
  [ref |-> ref,
   namespace |-> namespace,
   apikey |-> apikey,
   basicAuthHeader |-> [scheme |-> "Basic", credentials |-> Base64(apikey)],
   region |-> region,
   endpoint |-> getRegionalEndpoint(proc, ENDPOINTS(env), region),
   fetchRetry |-> ref + 1]

\* the header built from another field of the client
getAuthorizationHeaders_Recomputed(self) == [scheme |-> "Basic", credentials |-> Base64(self.namespace)]

\* getAuthorizationHeaders ()
getAuthorizationHeaders(self) == self.basicAuthHeader

(***************************************************************************)
(* URLs.  A URL is its path, a sequence of segments, and its query, one    *)
(* stringified value or NoParam per parameter name the client uses.        *)
(***************************************************************************)
IsDot(seg) == seg.t = "string" /\ seg.body = <<".">> /\ seg.rep = 1

IsDotDot(seg) ==
  /\ seg.t = "string"
  /\ \/ seg.body = <<".", ".">> /\ seg.rep = 1
     \/ seg.body = <<".">> /\ seg.rep = 2

EmptySeg == Str(<<>>)

\* new url.URL(urlString): "." and ".." segments are resolved by the parser
RECURSIVE Normalize(_, _)
Normalize(done, rest) ==
  IF rest = <<>> THEN done
  ELSE LET seg == Head(rest)
           last == Len(rest) = 1
           up == IF done = <<>> THEN <<>> ELSE SubSeq(done, 1, Len(done) - 1)
       IN  IF IsDotDot(seg) THEN Normalize(IF last THEN Append(up, EmptySeg) ELSE up, Tail(rest))
           ELSE IF IsDot(seg) THEN Normalize(IF last THEN Append(done, EmptySeg) ELSE done, Tail(rest))
           ELSE Normalize(Append(done, seg), Tail(rest))

NoQuery == [ttl |-> NoParam, matchData |-> NoParam, match |-> NoParam, countHint |-> NoParam, cursor |-> NoParam]

\* new url.URLSearchParams(queryObject): every own property, stringified
Param(v) == IF v = NoParam THEN NoParam ELSE ToStr(v)

URLSearchParams(q) == [p \in DOMAIN q |-> Param(q[p])]

\* createRequestUrl (containerURLPath = '', queryObject = {})
createRequestUrl(self, containerURLPath, queryObject) ==
  [endpoint |-> self.endpoint,
   path |-> Normalize(<<>>, <<Str(<<"containers">>), self.namespace>> \o containerURLPath),
   query |-> URLSearchParams(queryObject)]

\* the path `/data/${key}`
DataPath(key) == <<Str(<<"data">>), ToStr(key)>>

Request(method, url, auth, contentType, body) ==
  [method |-> method, url |-> url, Authorization |-> auth, ContentType |-> contentType, body |-> body]

NoRequest == Request("none", [endpoint |-> <<>>, path |-> <<>>, query |-> NoQuery], [scheme |-> "none", credentials |-> Base64(Undef)], "none", Undef)

(***************************************************************************)
(* What the HTTP executor hands back: a fetch Response, or a rejection.    *)
(*   requestId : response.headers.get('x-request-id')                      *)
(*   text      : the body read as text (get)                               *)
(*   expires   : the x-key-expires-ms header (get)                         *)
(*   keys, bytesKeys, bytesValues : the body read as JSON (deleteAll,      *)
(*               stats)                                                    *)
(*   page, cursor : the keys array and the cursor of a list page           *)
(***************************************************************************)
Response(rejected, status, requestId, text, expires, keys, bytesKeys, bytesValues, page, cursor) ==
  [rejected |-> rejected, status |-> status, requestId |-> requestId, text |-> text,
   expires |-> expires, keys |-> keys, bytesKeys |-> bytesKeys, bytesValues |-> bytesValues,
   page |-> page, cursor |-> cursor]

NoResponse == Response(FALSE, 0, Null, Undef, 0, 0, 0, 0, <<>>, Undef)

\* the executor's promise rejects (network failure)
Rejection == Response(TRUE, 0, Null, Undef, 0, 0, 0, 0, <<>>, Undef)

\* Response.ok
Ok(response) == response.status >= 200 /\ response.status <= 299

(***************************************************************************)
(* Parameters recorded with a request (the params argument of _wrap) and   *)
(* the details of an error (sdkDetails).                                   *)
(***************************************************************************)
NoParams ==
  [key |-> NoParam, value |-> NoParam, valueLength |-> NoParam, ttl |-> NoParam,
   match |-> NoParam, countHint |-> NoParam, cursor |-> NoParam, requestId |-> NoParam,
   errors |-> FALSE]

\* a property that is present in an object literal, whatever its value
Prop(v) == v

\* a property copied by a spread or a destructuring default: absent when undefined
Opt(v) == IF v = Undef THEN NoParam ELSE v

\* an error: its class, its code, its sdkDetails, and whether sdkDetails._internal
\* holds an underlying failure
NoError == [name |-> "none", code |-> "none", sdkDetails |-> NoParams, internal |-> FALSE]

SdkError(code, sdkDetails) ==
  [name |-> "AdobeStateLibError", code |-> code, sdkDetails |-> sdkDetails, internal |-> FALSE]

\* the error the executor rejected with, as the transport produced it
NetworkError == [name |-> "Error", code |-> "none", sdkDetails |-> NoParams, internal |-> FALSE]

\* reading .length of undefined or null
TypeError == [name |-> "TypeError", code |-> "none", sdkDetails |-> NoParams, internal |-> FALSE]

NoResult == [t |-> "none", v |-> Undef, expiration |-> 0, keys |-> 0, bytesKeys |-> 0, bytesValues |-> 0, page |-> <<>>]

Result(t, v) == [NoResult EXCEPT !.t = t, !.v = v]

Returned(result) == [kind |-> "returned", result |-> result, error |-> NoError]

Threw(error) == [kind |-> "threw", result |-> NoResult, error |-> error]

NoOutcome == [kind |-> "none", result |-> NoResult, error |-> NoError]

\* the switch without its case 429
StatusCode_No429(status) ==
  CASE status = 401 -> "ERROR_UNAUTHORIZED"
    [] status = 403 -> "ERROR_BAD_CREDENTIALS"
    [] status = 413 -> "ERROR_PAYLOAD_TOO_LARGE"
    [] OTHER -> "ERROR_INTERNAL"

\* the codes of handleResponse's switch
StatusCode(status) ==
  CASE status = 401 -> "ERROR_UNAUTHORIZED"
    [] status = 403 -> "ERROR_BAD_CREDENTIALS"
    [] status = 413 -> "ERROR_PAYLOAD_TOO_LARGE"
    [] status = 429 -> "ERROR_REQUEST_RATE_TOO_HIGH"
    [] OTHER -> "ERROR_INTERNAL"

\* handleResponse without its case 404
handleResponse_No404(response, params) ==
  IF Ok(response) THEN Returned(NoResult)
  ELSE Threw(SdkError(StatusCode(response.status), [params EXCEPT !.requestId = response.requestId]))

\* handleResponse (response, params): the response itself, or a thrown error
handleResponse(response, params) ==
  IF Ok(response) THEN Returned(NoResult)
  ELSE LET copyParams == [params EXCEPT !.requestId = response.requestId]
       IN  IF response.status = 404 THEN Returned(NoResult)
           ELSE Threw(SdkError(StatusCode(response.status), copyParams))

\* _wrap (promise, params): logAndThrow(e) rethrows what the executor rejected with
Wrap(response, params) ==
  IF response.rejected THEN Threw(NetworkError)
  ELSE handleResponse(response, params)

(***************************************************************************)
(* Validation.  validate(schema, data) is Ajv: a property constraint is    *)
(* applied only to a property whose value is not undefined, and a missing  *)
(* property is an error only when the schema lists it under `required`.    *)
(***************************************************************************)
KeySchema(key) == key = Undef \/ (IsString(key) /\ REGEX_PATTERN_STORE_KEY(key))

ValueSchema(value) == value = Undef \/ IsString(value)

TtlSchema(ttl) == ttl = Undef \/ IsInteger(ttl)

\* the deleteAll schema without required: ['match']
MatchRequiredSchema_Optional(match) == match = Undef \/ (IsString(match) /\ REGEX_PATTERN_MATCH_KEY(match))

\* deleteAll: properties.match plus required: ['match']
MatchRequiredSchema(match) == match # Undef /\ IsString(match) /\ REGEX_PATTERN_MATCH_KEY(match)

\* value.length
ValueLength(value) ==
  CASE IsString(value) -> Num(StrLen(value))
    [] value = Buf -> Num(7)
    [] OTHER -> Undef

Bool(b) == JsVal("boolean", <<>>, 0, IF b THEN 1 ELSE 0, FALSE)

\* new Date(Number(header)).toISOString()
ToISOString(ms) == ms

(***************************************************************************)
(* AdobeState.init (credentials = {})                                      *)
(***************************************************************************)
Credentials(namespace, apikey, region) == [namespace |-> namespace, apikey |-> apikey, region |-> region]

\* include ow environment vars to credentials, field by field
resolveCredentials_PerField(credentials, proc) ==
  [credentials EXCEPT !.namespace = IF Truthy(@) THEN @ ELSE proc.OW_NAMESPACE,
                      !.apikey = IF Truthy(@) THEN @ ELSE proc.OW_API_KEY]

\* include ow environment vars to credentials
resolveCredentials(credentials, proc) ==
  IF ~Truthy(credentials.namespace) /\ ~Truthy(credentials.apikey)
    THEN [credentials EXCEPT !.namespace = proc.OW_NAMESPACE, !.apikey = proc.OW_API_KEY]
    ELSE credentials

\* utils.withHiddenFields(credentials, ['apikey'])
withHiddenFields(credentials) ==
  [credentials EXCEPT !.apikey = IF Truthy(@) THEN Str(<<"<hidden>">>) ELSE @]

InAllowList(region) == \E j \in DOMAIN ALLOWED_REGIONS : ALLOWED_REGIONS[j] = region

\* the init schema without required: ['apikey', 'namespace']
CredentialsSchema_NoRequired(credentials) ==
  /\ credentials.region = Undef \/ (IsString(credentials.region) /\ InAllowList(credentials.region))
  /\ credentials.apikey = Undef \/ IsString(credentials.apikey)
  /\ credentials.namespace = Undef \/ IsString(credentials.namespace)

\* the init schema: region of the enum, apikey and namespace required strings
CredentialsSchema(credentials) ==
  /\ credentials.region = Undef \/ (IsString(credentials.region) /\ InAllowList(credentials.region))
  /\ credentials.apikey # Undef /\ IsString(credentials.apikey)
  /\ credentials.namespace # Undef /\ IsString(credentials.namespace)

\* the stage check that lets every region through
StageRegionRefused_Never(proc, credentials) == FALSE

\* env === 'stage' && credentials.region && credentials.region !== ALLOWED_STAGE_REGION
StageRegionRefused(proc, credentials) ==
  /\ getCliEnv(proc) = "stage"
  /\ Truthy(credentials.region)
  /\ credentials.region # proc.ALLOWED_STAGE_REGION

\* credentials.region = ALLOWED_REGIONS.at(0) for every region
defaultRegion_Always(credentials) == [credentials EXCEPT !.region = ALLOWED_REGIONS[1]]

\* if (!credentials.region) credentials.region = ALLOWED_REGIONS.at(0)
defaultRegion(credentials) ==
  IF ~Truthy(credentials.region) THEN [credentials EXCEPT !.region = ALLOWED_REGIONS[1]] ELSE credentials

NoInstance == AdobeState(DefaultProcess, 0, Undef, Undef, "prod", Undef)

NoStore == [st |-> "none", given |-> Credentials(Undef, Undef, Undef),
            credentials |-> Credentials(Undef, Undef, Undef), error |-> NoError, instance |-> NoInstance]

\* init: the caller's credentials object as init leaves it, and the instance or the error
init(credentials, proc, ref) ==
  LET resolved == resolveCredentials(credentials, proc)
      cloned == withHiddenFields(resolved)
      defaulted == defaultRegion(resolved)
      called == [NoStore EXCEPT !.given = credentials]
  IN  IF StageRegionRefused(proc, resolved)
        THEN [called EXCEPT !.st = "threw", !.credentials = resolved,
                            !.error = SdkError("ERROR_BAD_ARGUMENT", cloned)]
      ELSE IF ~CredentialsSchema(defaulted)
        THEN [called EXCEPT !.st = "threw", !.credentials = defaulted,
                            !.error = SdkError("ERROR_BAD_ARGUMENT", cloned)]
      ELSE [called EXCEPT !.st = "returned", !.credentials = defaulted,
                          !.instance = AdobeState(proc, ref, defaulted.namespace, defaulted.apikey,
                                                  getCliEnv(proc), defaulted.region)]

(***************************************************************************)
(* The synchronous part of each operation: either it throws, or it hands   *)
(* one request to the executor and awaits the answer.                      *)
(***************************************************************************)
Issued(request, params) == [outcome |-> NoOutcome, request |-> request, params |-> params]

Failed(error) == [outcome |-> Threw(error), request |-> NoRequest, params |-> NoParams]

\* get (key), up to the await
getStart(self, key) ==
  IF ~KeySchema(key)
    THEN Failed(SdkError("ERROR_BAD_ARGUMENT", [NoParams EXCEPT !.key = Prop(key), !.errors = TRUE]))
    ELSE Issued(Request("GET", createRequestUrl(self, DataPath(key), NoQuery),
                        getAuthorizationHeaders(self), "none", Undef),
                [NoParams EXCEPT !.key = Prop(key)])

\* const queryParams = ttl ? { ttl } : {}
putQueryParams_Truthy(ttl) ==
  IF ttl.t = "number" /\ (ttl.n # 0 \/ ttl.frac) THEN [NoQuery EXCEPT !.ttl = ttl] ELSE NoQuery

\* const queryParams = ttl !== undefined ? { ttl } : {}
putQueryParams(ttl) == IF ttl # Undef THEN [NoQuery EXCEPT !.ttl = ttl] ELSE NoQuery

\* ttl < 0 || ttl >= MAX_TTL_SECONDS
TtlOutOfRange_Exclusive(ttl) == ttl.n < 0 \/ ttl.n >= MAX_TTL_SECONDS

\* ttl < 0 || ttl > MAX_TTL_SECONDS
TtlOutOfRange(ttl) == ttl.n < 0 \/ ttl.n > MAX_TTL_SECONDS

\* put (key, value, options = {}), up to the await
putStart(self, key, value, ttl) ==
  IF ~(KeySchema(key) /\ ValueSchema(value) /\ TtlSchema(ttl))
    THEN IF value = Undef \/ value = Null
           THEN Failed(TypeError)
           ELSE Failed(SdkError("ERROR_BAD_ARGUMENT",
                   [NoParams EXCEPT !.key = Prop(key), !.valueLength = Prop(ValueLength(value)),
                                    !.ttl = Opt(ttl), !.errors = TRUE]))
  ELSE IF ttl # Undef /\ TtlOutOfRange(ttl)
    THEN IF value = Undef
           THEN Failed(TypeError)
           ELSE Failed(SdkError("ERROR_BAD_ARGUMENT",
                   [NoParams EXCEPT !.key = Prop(key), !.valueLength = Prop(ValueLength(value)),
                                    !.ttl = Opt(ttl)]))
  ELSE Issued(Request("PUT", createRequestUrl(self, DataPath(key), putQueryParams(ttl)),
                      getAuthorizationHeaders(self), "application/octet-stream", value),
              [NoParams EXCEPT !.key = Prop(key), !.value = Prop(value), !.ttl = Opt(ttl)])

\* delete (key), up to the await
deleteStart(self, key) ==
  IF ~KeySchema(key)
    THEN Failed(SdkError("ERROR_BAD_ARGUMENT", [NoParams EXCEPT !.key = Prop(key), !.errors = TRUE]))
    ELSE Issued(Request("DELETE", createRequestUrl(self, DataPath(key), NoQuery),
                        getAuthorizationHeaders(self), "none", Undef),
                [NoParams EXCEPT !.key = Prop(key)])

\* deleteAll (options = {}), up to the await
deleteAllStart(self, match) ==
  IF ~MatchRequiredSchema(match)
    THEN Failed(SdkError("ERROR_BAD_ARGUMENT", [NoParams EXCEPT !.match = Opt(match), !.errors = TRUE]))
    ELSE Issued(Request("DELETE", createRequestUrl(self, <<>>, [NoQuery EXCEPT !.matchData = match]),
                        getAuthorizationHeaders(self), "none", Undef),
                NoParams)

\* any (), up to the await
anyStart(self) ==
  Issued(Request("HEAD", createRequestUrl(self, <<>>, NoQuery), getAuthorizationHeaders(self), "none", Undef),
         NoParams)

\* stats (), up to the await
statsStart(self) ==
  Issued(Request("GET", createRequestUrl(self, <<>>, NoQuery), getAuthorizationHeaders(self), "none", Undef),
         NoParams)

(***************************************************************************)
(* The rest of each operation, once _wrap has returned the response.       *)
(***************************************************************************)
\* if (response.ok && text) return { value: text, ... }
getFinish_EmptyIsAbsent(key, response) ==
  IF Ok(response) /\ Truthy(response.text)
    THEN Returned([Result("getResult", response.text) EXCEPT !.expiration = ToISOString(response.expires)])
    ELSE Returned(Result("undefined", Undef))

getFinish(key, response) ==
  IF Ok(response)
    THEN Returned([Result("getResult", response.text) EXCEPT !.expiration = ToISOString(response.expires)])
    ELSE Returned(Result("undefined", Undef))

putFinish(key, response) == Returned(Result("key", key))

deleteFinish(key, response) ==
  IF response.status = 404 THEN Returned(Result("null", Null)) ELSE Returned(Result("key", key))

deleteAllFinish(response) ==
  IF response.status = 404
    THEN Returned([Result("count", Undef) EXCEPT !.keys = 0])
    ELSE Returned([Result("count", Undef) EXCEPT !.keys = response.keys])

anyFinish(response) == Returned(Result("boolean", Bool(response.status # 404)))

statsFinish(response) ==
  IF response.status = 404
    THEN Returned([Result("stats", Undef) EXCEPT !.keys = 0, !.bytesKeys = 0, !.bytesValues = 0])
    ELSE Returned([Result("stats", Undef) EXCEPT !.keys = response.keys,
                     !.bytesKeys = response.bytesKeys, !.bytesValues = response.bytesValues])

Finish(call, response) ==
  CASE call.op = "get" -> getFinish(call.key, response)
    [] call.op = "put" -> putFinish(call.key, response)
    [] call.op = "delete" -> deleteFinish(call.key, response)
    [] call.op = "deleteAll" -> deleteAllFinish(response)
    [] call.op = "any" -> anyFinish(response)
    [] OTHER -> statsFinish(response)

\* the awaited _wrap and what follows it
Settle(call, response) ==
  LET wrapped == Wrap(response, call.params)
  IN  IF wrapped.kind = "threw" THEN wrapped ELSE Finish(call, response)

(***************************************************************************)
(* State.                                                                  *)
(*   client : the AdobeState instance                                      *)
(*   calls  : the caller's calls of get/put/delete/deleteAll/any/stats:    *)
(*            idle, pending (awaiting the executor) or settled             *)
(*   iters  : the async generators returned by list()                      *)
(***************************************************************************)
CallIds == {"c1", "c2"}

IterIds == {"i1", "i2"}

IdleCall ==
  [st |-> "idle", op |-> "none", key |-> Undef, value |-> Undef, ttl |-> Undef, match |-> Undef,
   nreq |-> 0, request |-> NoRequest, params |-> NoParams, response |-> NoResponse, outcome |-> NoOutcome]

\* a call that ran its synchronous part
Began(op, key, value, ttl, match, started) ==
  [st |-> IF started.outcome.kind = "threw" THEN "settled" ELSE "pending",
   op |-> op, key |-> key, value |-> value, ttl |-> ttl, match |-> match,
   nreq |-> IF started.outcome.kind = "threw" THEN 0 ELSE 1,
   request |-> started.request, params |-> started.params,
   response |-> NoResponse, outcome |-> started.outcome]

fakeCredentials == Credentials(Str(<<"some-namespace">>), Str(<<"some-api-key">>), Undef)

\* store = await AdobeState.init(fakeCredentials)
FakeClient == init(fakeCredentials, DefaultProcess, 1).instance

\* argument values the caller may pass
Keys ==
  {Str(<<"k">>), Str(<<"a", ".", "b", "-", "_">>), Rep(<<"k">>, MAX_KEY_SIZE), Rep(<<"k">>, MAX_KEY_SIZE + 1),
   Str(<<"b", "/", "k">>), Str(<<>>), Str(<<".", ".">>), Undef, Null, Num(5)}

Values == {Str(<<"v">>), Undef, Null, Num(5), Buf}

Ttls ==
  {Undef, Num(0), Num(1), Num(MAX_TTL_SECONDS), Num(MAX_TTL_SECONDS + 1), Num(-1), Frac(1), Str(<<"1">>), Null}

MatchArgs == {Undef, Str(<<"*">>), Str(<<"a", "*">>), Str(<<"b", "!">>), Str(<<>>), Num(5)}

\* answers of the service
Statuses == {200, 204, 302, 401, 403, 404, 413, 429, 500}

RequestIds == {Null, Str(<<"fake-req-id">>)}

\* the answers the service can give to a request of an operation
ResponsesFor(op) ==
  {Rejection} \cup
  { Response(FALSE, s, rid,
             IF op = "get" /\ s = 200 THEN Str(<<"v">>) ELSE Str(<<>>),
             IF op = "get" /\ s = 200 THEN 1707445350 ELSE 0,
             IF op \in {"deleteAll", "stats"} /\ s = 200 THEN 3 ELSE 0,
             IF op = "stats" /\ s = 200 THEN 5 ELSE 0,
             IF op = "stats" /\ s = 200 THEN 8 ELSE 0,
             <<>>, Undef) : s \in Statuses, rid \in RequestIds }

\* one operation at a time: no other call is in progress or kept, and no list
Alone(c) ==
  /\ calls[c].st = "idle"
  /\ \A d \in CallIds \ {c} : calls[d].st = "idle"
  /\ \A i \in IterIds : iters[i].st = "none"

Get(c, key) ==
  /\ Alone(c)
  /\ calls' = [calls EXCEPT ![c] = Began("get", key, Undef, Undef, Undef, getStart(client, key))]
  /\ UNCHANGED <<client, iters, setup, remote>>

Put(c, key, value, ttl) ==
  /\ Alone(c)
  /\ calls' = [calls EXCEPT ![c] = Began("put", key, value, ttl, Undef, putStart(client, key, value, ttl))]
  /\ UNCHANGED <<client, iters, setup, remote>>

Delete(c, key) ==
  /\ Alone(c)
  /\ calls' = [calls EXCEPT ![c] = Began("delete", key, Undef, Undef, Undef, deleteStart(client, key))]
  /\ UNCHANGED <<client, iters, setup, remote>>

DeleteAll(c, match) ==
  /\ Alone(c)
  /\ calls' = [calls EXCEPT ![c] = Began("deleteAll", Undef, Undef, Undef, match, deleteAllStart(client, match))]
  /\ UNCHANGED <<client, iters, setup, remote>>

Any(c) ==
  /\ Alone(c)
  /\ calls' = [calls EXCEPT ![c] = Began("any", Undef, Undef, Undef, Undef, anyStart(client))]
  /\ UNCHANGED <<client, iters, setup, remote>>

Stats(c) ==
  /\ Alone(c)
  /\ calls' = [calls EXCEPT ![c] = Began("stats", Undef, Undef, Undef, Undef, statsStart(client))]
  /\ UNCHANGED <<client, iters, setup, remote>>

\* a client that hands a 429 back to the executor for another attempt
Answer_Retry429(call, response) ==
  IF ~response.rejected /\ response.status = 429 /\ call.nreq < 2
    THEN [call EXCEPT !.nreq = @ + 1]
    ELSE [call EXCEPT !.st = "settled", !.response = response, !.outcome = Settle(call, response)]

\* the call once the awaited _wrap has the executor's answer: nothing is sent again
Answer(call, response) ==
  [call EXCEPT !.st = "settled", !.response = response, !.outcome = Settle(call, response)]

\* the executor's promise settles and the operation runs to its end
Respond(c, response) ==
  /\ calls[c].st = "pending"
  /\ calls' = [calls EXCEPT ![c] = Answer(calls[c], response)]
  /\ UNCHANGED <<client, iters, setup, remote>>

(***************************************************************************)
(* Calls made while other calls of the same client are pending.            *)
(***************************************************************************)
\* the synchronous part of the operation called
Started(self, op, key, value, ttl, match) ==
  CASE op = "get" -> getStart(self, key)
    [] op = "put" -> putStart(self, key, value, ttl)
    [] op = "delete" -> deleteStart(self, key)
    [] op = "deleteAll" -> deleteAllStart(self, match)
    [] op = "any" -> anyStart(self)
    [] OTHER -> statsStart(self)

\* a client that sends one request for identical calls pending together
Launch_Coalesced(c, op, key, value, ttl, match) ==
  LET started == Started(client, op, key, value, ttl, match)
      began == Began(op, key, value, ttl, match, started)
  IN  IF \E d \in CallIds \ {c} : calls[d].st = "pending" /\ calls[d].request = started.request
        THEN [began EXCEPT !.nreq = 0, !.request = NoRequest]
        ELSE began

\* the call runs its synchronous part whatever else is pending on the client
Launch(c, op, key, value, ttl, match) ==
  Began(op, key, value, ttl, match, Started(client, op, key, value, ttl, match))

\* an operation is called while any number of others await their answers
Invoke(c, op, key, value, ttl, match) ==
  /\ calls[c].st = "idle"
  /\ \A i \in IterIds : iters[i].st = "none"
  /\ calls' = [calls EXCEPT ![c] = Launch(c, op, key, value, ttl, match)]
  /\ UNCHANGED <<client, iters, setup, remote>>

\* the calls made concurrently: <<op, key, value, ttl, match>>
ConcurrentCalls ==
  { <<"get", key, Undef, Undef, Undef>> : key \in {Str(<<"k">>), Str(<<"a", ".", "b", "-", "_">>), Str(<<>>)} } \cup
  { <<"put", key, Str(<<"v">>), ttl, Undef>> : key \in {Str(<<"k">>), Str(<<>>)}, ttl \in {Undef, Num(1)} } \cup
  { <<"delete", Str(<<"k">>), Undef, Undef, Undef>>,
    <<"deleteAll", Undef, Undef, Undef, Str(<<"*">>)>>,
    <<"any", Undef, Undef, Undef, Undef>>,
    <<"stats", Undef, Undef, Undef, Undef>> }

(***************************************************************************)
(* list (options): validation at the call, then the async generator iter.  *)
(***************************************************************************)
MIN_LIST_COUNT_HINT == 100

MAX_LIST_COUNT_HINT == 1000

\* if (options.match), if (options.countHint)
\* queryParams as list() builds it
listQueryParams(match, countHint) ==
  [NoQuery EXCEPT !.match = IF Truthy(match) THEN match ELSE NoParam,
                  !.countHint = IF Truthy(countHint) THEN countHint ELSE NoParam]

\* countHint < MIN_LIST_COUNT_HINT || countHint > MAX_LIST_COUNT_HINT, on numbers only
OutOfRange(countHint) ==
  /\ countHint.t = "number"
  /\ \/ countHint.n < MIN_LIST_COUNT_HINT
     \/ countHint.n > MAX_LIST_COUNT_HINT
     \/ countHint.n = MAX_LIST_COUNT_HINT /\ countHint.frac

ListSchema(q) ==
  /\ q.match = NoParam \/ (IsString(q.match) /\ REGEX_PATTERN_MATCH_KEY(q.match))
  /\ q.countHint = NoParam \/ IsInteger(q.countHint)

ListDetails(q) == [NoParams EXCEPT !.match = q.match, !.countHint = q.countHint]

\* the caller is done with a settled call
Release(c) ==
  /\ calls[c].st = "settled"
  /\ calls' = [calls EXCEPT ![c] = IdleCall]
  /\ UNCHANGED <<client, iters, setup, remote>>

NoIter ==
  [st |-> "none", options |-> [match |-> Undef, countHint |-> Undef], queryParams |-> NoQuery, cursor |-> Undef, notFound |-> FALSE, nreq |-> 0,
   request |-> NoRequest, sent |-> <<>>, got |-> <<>>, pages |-> <<>>, error |-> NoError]

\* list (options = {}): throws, or returns a generator that has not started
listCall(match, countHint) ==
  LET q == listQueryParams(match, countHint)
      called == [NoIter EXCEPT !.options = [match |-> match, countHint |-> countHint]]
  IN  IF q.countHint # NoParam /\ OutOfRange(q.countHint)
        THEN [called EXCEPT !.st = "threw", !.error = SdkError("ERROR_BAD_ARGUMENT", ListDetails(q))]
      ELSE IF ~ListSchema(q)
        THEN [called EXCEPT !.st = "threw",
                            !.error = SdkError("ERROR_BAD_ARGUMENT", [ListDetails(q) EXCEPT !.errors = TRUE])]
      ELSE [called EXCEPT !.st = "suspendedStart", !.queryParams = q]

\* the request of one turn of the do-while loop: { ...queryParams, cursor }
listRequest(self, queryParams, cursor) ==
  Request("GET", createRequestUrl(self, <<Str(<<"data">>)>>, [queryParams EXCEPT !.cursor = cursor]),
          getAuthorizationHeaders(self), "none", Undef)

listParams(queryParams, cursor) ==
  [NoParams EXCEPT !.match = queryParams.match, !.countHint = queryParams.countHint, !.cursor = cursor]

\* while (cursor !== '0')
MorePages_StringZero(cursor) == cursor # Digits(0)

\* while (cursor !== 0)
MorePages(cursor) == ~(cursor.t = "number" /\ cursor.n = 0 /\ ~cursor.frac)

\* a sequence that starts over when it is asked for more after its end
iterResume_Restart(self, it) ==
  LET cursor == IF it.st \in {"suspendedStart", "completed"} THEN Num(0) ELSE it.cursor
      issue == LET request == listRequest(self, it.queryParams, cursor)
               IN  [it EXCEPT !.st = "awaiting", !.cursor = cursor, !.nreq = @ + 1,
                              !.request = request, !.sent = Append(@, request)]
  IN  IF it.st \in {"suspendedStart", "completed"} THEN issue
      ELSE IF it.notFound THEN [it EXCEPT !.st = "completed"]
      ELSE IF MorePages(it.cursor) THEN issue
      ELSE [it EXCEPT !.st = "completed"]

\* the generator runs from its start, or from a yield, to the next await or to its end;
\* a generator that has returned or thrown runs nothing
iterResume(self, it) ==
  LET cursor == IF it.st = "suspendedStart" THEN Num(0) ELSE it.cursor
      issue == LET request == listRequest(self, it.queryParams, cursor)
               IN  [it EXCEPT !.st = "awaiting", !.cursor = cursor, !.nreq = @ + 1,
                              !.request = request, !.sent = Append(@, request)]
  IN  IF it.st = "completed" THEN it
      ELSE IF it.st = "suspendedStart" THEN issue
      ELSE IF it.notFound THEN [it EXCEPT !.st = "completed"]
      ELSE IF MorePages(it.cursor) THEN issue
      ELSE [it EXCEPT !.st = "completed"]

RECURSIVE Dedup(_, _)
Dedup(seen, rest) ==
  IF rest = <<>> THEN seen
  ELSE IF \E j \in 1..Len(seen) : seen[j] = Head(rest) THEN Dedup(seen, Tail(rest))
  ELSE Dedup(Append(seen, Head(rest)), Tail(rest))

\* yield { keys: [...new Set(res.keys)] }
Yielded_Dedup(res) == Dedup(<<>>, res.page)

\* yield { keys: res.keys }
Yielded(res) == res.page

\* cursor += res.keys.length
NextCursor_Offset(it, res) == Num(it.cursor.n + Len(res.page))

\* cursor = res.cursor
NextCursor(it, res) == res.cursor

\* a loop that catches the failure of a page and goes on with the next one
iterResponse_SkipFailedPage(it, response) ==
  LET wrapped == Wrap(response, listParams(it.queryParams, it.cursor))
      got == Append(it.got, response)
  IN  IF wrapped.kind = "threw"
        THEN [it EXCEPT !.st = "suspendedYield", !.got = got, !.cursor = Num(1), !.pages = Append(@, <<>>)]
      ELSE IF response.status = 404
        THEN [it EXCEPT !.st = "suspendedYield", !.got = got, !.notFound = TRUE, !.pages = Append(@, <<>>)]
      ELSE [it EXCEPT !.st = "suspendedYield", !.got = got, !.cursor = NextCursor(it, response),
                      !.pages = Append(@, Yielded(response))]

\* the awaited _wrap returns or throws, up to the yield
iterResponse(it, response) ==
  LET wrapped == Wrap(response, listParams(it.queryParams, it.cursor))
      got == Append(it.got, response)
  IN  IF wrapped.kind = "threw"
        THEN [it EXCEPT !.st = "completed", !.got = got, !.error = wrapped.error]
      ELSE IF response.status = 404
        THEN [it EXCEPT !.st = "suspendedYield", !.got = got, !.notFound = TRUE, !.pages = Append(@, <<>>)]
      ELSE [it EXCEPT !.st = "suspendedYield", !.got = got, !.cursor = NextCursor(it, response),
                      !.pages = Append(@, Yielded(response))]

MaxListRequests == 3

ListArgs == {<<Undef, Undef>>, <<Str(<<"a", "*">>), Num(MIN_LIST_COUNT_HINT)>>,
             <<Str(<<"b", "!">>), Undef>>, <<Undef, Num(MIN_LIST_COUNT_HINT - 1)>>,
             <<Undef, Num(MAX_LIST_COUNT_HINT + 1)>>, <<Undef, Frac(500)>>, <<Undef, Str(<<"f">>)>>,
             <<Undef, Num(0)>>}

Cursors == {Num(0), Num(1), Num(2), Digits(0)}

Pages == {<<>>, <<"b", "a", "b">>}

ListResponses ==
  {Rejection} \cup
  { Response(FALSE, s, Null, Str(<<>>), 0, 0, 0, 0, <<>>, Undef) : s \in Statuses \ {200, 204} } \cup
  { Response(FALSE, 200, Null, Str(<<>>), 0, 0, 0, 0, page, cursor) : page \in Pages, cursor \in Cursors }

RECURSIVE SumReq(_)
SumReq(S) == IF S = {} THEN 0 ELSE LET i == CHOOSE x \in S : TRUE IN iters[i].nreq + SumReq(S \ {i})

ListRequests == SumReq(IterIds)

\* the cursor kept on the client instance, shared by its generators
StoreIter_SharedCursor(i, it) ==
  [j \in IterIds |-> IF j = i THEN it
                     ELSE IF iters[j].st = "suspendedYield" THEN [iters[j] EXCEPT !.cursor = it.cursor]
                     ELSE iters[j]]

\* each generator keeps its own variables (let cursor) in its own closure
StoreIter(i, it) == [iters EXCEPT ![i] = it]

List(i, match, countHint) ==
  /\ iters[i].st = "none"
  /\ \A c \in CallIds : calls[c].st = "idle"
  /\ iters' = StoreIter(i, listCall(match, countHint))
  /\ UNCHANGED <<client, calls, setup, remote>>

\* the consumer calls next() on a generator that is not running
IterNext(i) ==
  /\ iters[i].st \in {"suspendedStart", "suspendedYield", "completed"}
  /\ iterResume(client, iters[i]).st = "awaiting" => ListRequests < MaxListRequests
  /\ iters' = StoreIter(i, iterResume(client, iters[i]))
  /\ UNCHANGED <<client, calls, setup, remote>>

\* the executor's promise settles and the generator runs to its yield or throws
ListRespond(i, response) ==
  /\ iters[i].st = "awaiting"
  /\ iters' = StoreIter(i, iterResponse(iters[i], response))
  /\ UNCHANGED <<client, calls, setup, remote>>

(***************************************************************************)
(* Calls of AdobeState.init.                                               *)
(*   process : the environment of the process (it does not change)         *)
(*   stores  : the caller's init calls and what each gave                  *)
(*   heap    : the number of objects made so far; an object's identity is  *)
(*             its rank                                                    *)
(***************************************************************************)
InitIds == {"h1", "h2"}

Namespaces == {Undef, Str(<<"some-namespace">>), Num(5)}

ApiKeys == {Undef, Str(<<"some-api-key">>), Null}

Regions == {Undef, ALLOWED_REGIONS[1], ALLOWED_REGIONS[2], ALLOWED_REGIONS[3],
            Str(<<"some-invalid-region">>), Str(<<>>)}

Processes ==
  { Process(owNamespace, owApiKey, env, customEndpoint, ALLOWED_REGIONS[j]) :
      owNamespace \in {Undef, Str(<<"ow-namespace">>)}, owApiKey \in {Undef, Str(<<"ow-api-key">>)},
      env \in {"prod", "stage"}, customEndpoint \in {Undef, Str(<<"https://custom.abc.com">>)},
      j \in DOMAIN ALLOWED_REGIONS }

\* the instance made last, kept by the module and handed out again
New_Cached == IF heap = 0 THEN heap + 1 ELSE heap - 1

\* new: an object that did not exist before
New == heap + 1

\* store = await AdobeState.init(credentials)
InitCall(h, namespace, apikey, region) ==
  /\ stores[h].st = "none"
  /\ LET credentials == Credentials(namespace, apikey, region)
         made == init(credentials, process, New)
     IN  /\ stores' = [stores EXCEPT ![h] = made]
         /\ heap' = IF made.st = "returned" THEN made.instance.fetchRetry ELSE heap
  /\ UNCHANGED <<client, calls, iters, process, remote, cosmos>>

(***************************************************************************)
(* A service that stores what it is sent: a PUT keeps the body under the   *)
(* path of the URL, a GET of that path gives it back as text, a DELETE     *)
(* removes it; a GET or DELETE of a path that holds nothing is a 404.      *)
(*   server  : the resources held, one per path                            *)
(*   written : per key, the last put or delete of the caller that returned *)
(***************************************************************************)
StoreKeys == {Str(<<"k">>), Str(<<".", ".">>), Str(<<".">>), Str(<<"b", "/", "k">>)}

StoreValues == {Str(<<"v">>), Str(<<>>), Undef}

StoreTtls == {Undef, Num(1)}

NotWritten == [op |-> "none", value |-> Undef]

Held(srv, path) == \E e \in srv : e.path = path

BodyAt(srv, path) == (CHOOSE e \in srv : e.path = path).body

\* the body of a request as the service reads it
Payload(body) == IF IsString(body) THEN body ELSE Str(<<>>)

ServerAfter(srv, request) ==
  CASE request.method = "PUT" ->
         {e \in srv : e.path # request.url.path}
           \cup {[path |-> request.url.path, body |-> Payload(request.body)]}
    [] request.method = "DELETE" -> {e \in srv : e.path # request.url.path}
    [] OTHER -> srv

ServerAnswer(srv, request) ==
  CASE request.method = "PUT" ->
         Response(FALSE, 204, Str(<<"fake-req-id">>), Str(<<>>), 0, 0, 0, 0, <<>>, Undef)
    [] Held(srv, request.url.path) /\ request.method = "GET" ->
         Response(FALSE, 200, Str(<<"fake-req-id">>), BodyAt(srv, request.url.path), 1707445350,
                  0, 0, 0, <<>>, Undef)
    [] Held(srv, request.url.path) /\ request.method = "DELETE" ->
         Response(FALSE, 200, Str(<<"fake-req-id">>), Str(<<>>), 0, 0, 0, 0, <<>>, Undef)
    [] OTHER -> Response(FALSE, 404, Str(<<"fake-req-id">>), Str(<<>>), 0, 0, 0, 0, <<>>, Undef)

\* the service answers the request of a call and the operation runs to its end
Serve(c) ==
  /\ calls[c].st = "pending"
  /\ LET response == ServerAnswer(server, calls[c].request)
         outcome == Settle(calls[c], response)
     IN  /\ calls' = [calls EXCEPT ![c] = [@ EXCEPT !.st = "settled", !.response = response,
                                                   !.outcome = outcome]]
         /\ written' = IF calls[c].op \in {"put", "delete"} /\ outcome.kind = "returned"
                         THEN [written EXCEPT ![calls[c].key] = [op |-> calls[c].op, value |-> calls[c].value]]
                         ELSE written
  /\ server' = ServerAfter(server, calls[c].request)
  /\ UNCHANGED <<client, iters, setup>>

(***************************************************************************)
(* What init and the operations write to the logger.  A line of the log    *)
(* is its message, the values it prints and the request options it         *)
(* prints.  The lines of a call are a function of the call: what it was    *)
(* given, the request it issued, the answer it got and how it ended.       *)
(***************************************************************************)
LogLine(msg, values, reqOptions) == [msg |-> msg, values |-> values, reqOptions |-> reqOptions]

HiddenAuthorization == [scheme |-> "<hidden>", credentials |-> Base64(Undef)]

\* utils.withHiddenFields(reqOptions, ['headers.Authorization'])
hideAuthorization(reqOptions) ==
  [reqOptions EXCEPT !.Authorization = IF @.scheme # "none" THEN HiddenAuthorization ELSE @]

\* logger.debug(op, requestOptions)
logDebug_Plain(op, url, reqOptions) == LogLine(op, {}, [reqOptions EXCEPT !.url = url])

\* logDebug (op, url, reqOptions)
logDebug(op, url, reqOptions) == LogLine(op, {}, [hideAuthorization(reqOptions) EXCEPT !.url = url])

ParamNames == {"key", "value", "valueLength", "ttl", "match", "countHint", "cursor", "requestId"}

\* the values JSON.stringify prints for the details of an error
Printed(sdkDetails) == {sdkDetails[f] : f \in ParamNames} \ {NoParam}

\* the values JSON.stringify prints for the credentials of init
PrintedCredentials(credentials) == {credentials.namespace, credentials.apikey, credentials.region} \ {Undef}

\* logAndThrow (e): logger.error(JSON.stringify(e, null, 2))
logAndThrow(e) == LogLine("error", Printed(e.sdkDetails), NoRequest)

\* the lines of get, put, delete, deleteAll, any and stats
CallLog(call) ==
  (IF call.op = "put" THEN {LogLine("put with options", {call.key, call.ttl}, NoRequest)} ELSE {}) \cup
  (IF call.op = "delete" THEN {LogLine("delete", {call.key}, NoRequest)} ELSE {}) \cup
  (IF call.nreq > 0 THEN {logDebug(call.op, call.request.url, call.request)} ELSE {}) \cup
  (IF call.st = "settled" /\ call.nreq > 0 /\ ~call.response.rejected
     THEN {LogLine("response", {call.response.text, call.response.requestId}, NoRequest)} ELSE {}) \cup
  (IF call.outcome.kind = "threw" /\ call.outcome.error.name # "TypeError"
     THEN {logAndThrow(call.outcome.error)} ELSE {})

\* the lines of list and of its generator
IterLog(it) ==
  (IF it.st # "none" THEN {LogLine("list", {it.options.match, it.options.countHint}, NoRequest)} ELSE {}) \cup
  {logDebug("list", it.sent[j].url, it.sent[j]) : j \in DOMAIN it.sent} \cup
  {LogLine("response", {it.got[j].requestId}, NoRequest) : j \in {k \in DOMAIN it.got : ~it.got[k].rejected}} \cup
  (IF it.error # NoError THEN {logAndThrow(it.error)} ELSE {})

\* the lines of init: the credentials it works with, and the error it throws
InitLog(store, proc) ==
  LET cloned == withHiddenFields(resolveCredentials(store.given, proc))
  IN  (IF store.st # "none"
         THEN {LogLine("init AdobeState with", PrintedCredentials(cloned), NoRequest)} ELSE {}) \cup
      (IF store.st = "threw"
         THEN {LogLine("error", PrintedCredentials(store.error.sdkDetails), NoRequest)} ELSE {})

\* state = await AdobeState.init(credentials): the instance the caller goes on with
InitClient(h, namespace, apikey, region) ==
  /\ stores[h].st = "none"
  /\ client = NoInstance
  /\ LET credentials == Credentials(namespace, apikey, region)
         made == init(credentials, process, New)
     IN  /\ stores' = [stores EXCEPT ![h] = made]
         /\ heap' = IF made.st = "returned" THEN made.instance.fetchRetry ELSE heap
         /\ client' = IF made.st = "returned" THEN made.instance ELSE client
  /\ UNCHANGED <<calls, iters, process, remote, cosmos>>

(***************************************************************************)
(* The Cosmos-backed store of the earlier revisions: the module's init     *)
(* and CosmosStateStore.init.                                              *)
(*   inMemoryInstance : CosmosStateStore.inMemoryInstance; per partition   *)
(*                      key the rank of the store kept under it, 0 when    *)
(*                      the object has no such property                    *)
(*   cosmosStores     : the CosmosStateStore objects made, in order; a     *)
(*                      store's identity is its rank                       *)
(*   cosmosClients    : the cosmos.CosmosClient objects made, in order     *)
(*   cosmosInit       : the number of init calls made, and the last one    *)
(***************************************************************************)
MaxInitCalls == 3

PartitionKeys == {Str(<<"pk1">>), Str(<<"pk2">>), Str(<<"constructor">>)}

Expirations == {Undef, Str(<<"1970-01-01T00:00:00.000Z">>), Str(<<"1970-01-01T00:00:00.001Z">>)}

\* the property names an object literal inherits from Object.prototype
ObjectPrototype == {Str(<<"constructor">>), Str(<<"toString">>), Str(<<"valueOf">>), Str(<<"__proto__">>)}

CosmosCredentials(masterKey, resourceToken, partitionKey, expiration) ==
  [masterKey |-> masterKey, resourceToken |-> resourceToken, endpoint |-> Str(<<"https://cosmos">>),
   databaseId |-> Str(<<"db">>), containerId |-> Str(<<"container">>),
   partitionKey |-> partitionKey, expiration |-> expiration]

\* joi.string(): a string, and not the empty one
joiString(v) == IsString(v) /\ StrLen(v) > 0

\* the schema of CosmosStateStore.init
CosmosSchema(credentials) ==
  /\ credentials.resourceToken = Undef \/ joiString(credentials.resourceToken)
  /\ credentials.masterKey = Undef \/ joiString(credentials.masterKey)
  /\ joiString(credentials.endpoint)
  /\ joiString(credentials.databaseId)
  /\ joiString(credentials.containerId)
  /\ joiString(credentials.partitionKey)
  /\ credentials.expiration = Undef \/ joiString(credentials.expiration)
  /\ (credentials.masterKey = Undef) # (credentials.resourceToken = Undef)

\* what obj[name] gives: a store kept under the name, else what Object.prototype has under it
NoMember == [t |-> "undefined", ref |-> 0]

Member(obj, name) ==
  IF obj[name] # 0 THEN [t |-> "CosmosStateStore", ref |-> obj[name]]
  ELSE IF name \in ObjectPrototype THEN [t |-> "builtin", ref |-> 0]
  ELSE NoMember

\* member.expiration
expirationOf(member, made) ==
  IF member.t = "CosmosStateStore" THEN made[member.ref].expiration ELSE Undef

EmptyObject == [name \in PartitionKeys |-> 0]

NoCosmosOutcome == [kind |-> "none", value |-> NoMember, code |-> "none"]

NoCosmosInit == [n |-> 0, by |-> "none", credentials |-> CosmosCredentials(Undef, Undef, Undef, Undef),
                 outcome |-> NoCosmosOutcome]

\* a cached store is kept whatever the expiration of the credentials
Discard_Never(cache, made, credentials) == cache

\* if (inMemoryInstance && inMemoryInstance.expiration !== credentials.expiration) delete ...
Discard(cache, made, credentials) ==
  LET inMemory == Member(cache, credentials.partitionKey)
  IN  IF inMemory.t # "undefined" /\ expirationOf(inMemory, made) # credentials.expiration
        THEN [cache EXCEPT ![credentials.partitionKey] = 0]
        ELSE cache

\* CosmosStateStore.init(credentials): the cache, the objects made and the outcome
CosmosStateStore_init(credentials, cache, made, clients) ==
  IF ~CosmosSchema(credentials)
    THEN [inMemoryInstance |-> cache, cosmosStores |-> made, cosmosClients |-> clients,
          outcome |-> [NoCosmosOutcome EXCEPT !.kind = "threw", !.code = "ERROR_BAD_ARGUMENT"]]
  ELSE LET kept == Discard(cache, made, credentials)
           cosmosClient == [endpoint |-> credentials.endpoint,
                            auth |-> IF Truthy(credentials.resourceToken) THEN "tokenProvider" ELSE "key"]
           store == [container |-> Len(clients) + 1, partitionKey |-> credentials.partitionKey,
                     expiration |-> credentials.expiration]
       IN  IF Member(kept, credentials.partitionKey).t = "undefined"
             THEN [inMemoryInstance |-> [kept EXCEPT ![credentials.partitionKey] = Len(made) + 1],
                   cosmosStores |-> Append(made, store), cosmosClients |-> Append(clients, cosmosClient),
                   outcome |-> [NoCosmosOutcome EXCEPT !.kind = "returned",
                                  !.value = [t |-> "CosmosStateStore", ref |-> Len(made) + 1]]]
             ELSE [inMemoryInstance |-> kept, cosmosStores |-> made, cosmosClients |-> clients,
                   outcome |-> [NoCosmosOutcome EXCEPT !.kind = "returned",
                                  !.value = Member(kept, credentials.partitionKey)]]

\* the module's init with the cache of the earlier calls left as it is
Emptied_Kept(cache) == cache

\* CosmosStateStore.inMemoryInstance = {}
Emptied(cache) == EmptyObject

\* store = await CosmosStateStore.init(credentials)
CosmosInit(masterKey, resourceToken, partitionKey, expiration) ==
  /\ cosmosInit.n < MaxInitCalls
  /\ LET credentials == CosmosCredentials(masterKey, resourceToken, partitionKey, expiration)
         done == CosmosStateStore_init(credentials, inMemoryInstance, cosmosStores, cosmosClients)
     IN  /\ inMemoryInstance' = done.inMemoryInstance
         /\ cosmosStores' = done.cosmosStores
         /\ cosmosClients' = done.cosmosClients
         /\ cosmosInit' = [n |-> cosmosInit.n + 1, by |-> "CosmosStateStore.init",
                           credentials |-> credentials, outcome |-> done.outcome]
  /\ UNCHANGED <<client, calls, iters, process, stores, heap, remote>>

\* store = await init({ cosmos }): the caller's own Cosmos credentials
ByoInit(masterKey, resourceToken, partitionKey, expiration) ==
  /\ cosmosInit.n < MaxInitCalls
  /\ LET credentials == CosmosCredentials(masterKey, resourceToken, partitionKey, expiration)
         done == CosmosStateStore_init(credentials, Emptied(inMemoryInstance), cosmosStores, cosmosClients)
     IN  /\ inMemoryInstance' = done.inMemoryInstance
         /\ cosmosStores' = done.cosmosStores
         /\ cosmosClients' = done.cosmosClients
         /\ cosmosInit' = [n |-> cosmosInit.n + 1, by |-> "init cosmos",
                           credentials |-> credentials, outcome |-> done.outcome]
  /\ UNCHANGED <<client, calls, iters, process, stores, heap, remote>>

\* what the token vending machine answers: a status, and with 200 a resource token
TvmStatuses == {200, 401, 403, 500}

\* store = await init({ ow }): the credentials come from the token vending machine
OwInit(status, partitionKey, expiration) ==
  /\ cosmosInit.n < MaxInitCalls
  /\ LET credentials == CosmosCredentials(Undef, Str(<<"some-token">>), partitionKey, expiration)
         done == CosmosStateStore_init(credentials, inMemoryInstance, cosmosStores, cosmosClients)
         asked == [n |-> cosmosInit.n + 1, by |-> "init ow",
                   credentials |-> CosmosCredentials(Undef, Undef, Undef, Undef), outcome |-> NoCosmosOutcome]
     IN  IF status = 200
           THEN /\ inMemoryInstance' = done.inMemoryInstance
                /\ cosmosStores' = done.cosmosStores
                /\ cosmosClients' = done.cosmosClients
                /\ cosmosInit' = [asked EXCEPT !.credentials = credentials, !.outcome = done.outcome]
           ELSE /\ cosmosInit' = [asked EXCEPT !.outcome.kind = "threw",
                                    !.outcome.code = IF status \in {401, 403} THEN "ERROR_BAD_CREDENTIALS"
                                                     ELSE "tvm error"]
                /\ UNCHANGED <<inMemoryInstance, cosmosStores, cosmosClients>>
  /\ UNCHANGED <<client, calls, iters, process, stores, heap, remote>>

\* the client of the unit tests, made in a process with no variable set
Init ==
  /\ client = FakeClient
  /\ calls = [c \in CallIds |-> IdleCall]
  /\ iters = [i \in IterIds |-> NoIter]
  /\ process = DefaultProcess
  /\ stores = [h \in InitIds |-> NoStore]
  /\ heap = FakeClient.fetchRetry
  /\ server = {}
  /\ written = [key \in StoreKeys |-> NotWritten]
  /\ inMemoryInstance = EmptyObject
  /\ cosmosStores = <<>>
  /\ cosmosClients = <<>>
  /\ cosmosInit = NoCosmosInit

\* a process that has not called init yet
InitInit ==
  /\ client = NoInstance
  /\ calls = [c \in CallIds |-> IdleCall]
  /\ iters = [i \in IterIds |-> NoIter]
  /\ process \in Processes
  /\ stores = [h \in InitIds |-> NoStore]
  /\ heap = 0
  /\ server = {}
  /\ written = [key \in StoreKeys |-> NotWritten]
  /\ inMemoryInstance = EmptyObject
  /\ cosmosStores = <<>>
  /\ cosmosClients = <<>>
  /\ cosmosInit = NoCosmosInit


\* the calls and generators an action can apply to
Free == {c \in CallIds : Alone(c)}

Pending == {c \in CallIds : calls[c].st = "pending"}

Unused == {i \in IterIds : iters[i].st = "none" /\ \A c \in CallIds : calls[c].st = "idle"}

Awaiting == {i \in IterIds : iters[i].st = "awaiting"}

Next ==
  \/ \E c \in Free, key \in Keys : Get(c, key)
  \/ \E c \in Free, key \in Keys, value \in Values, ttl \in Ttls : Put(c, key, value, ttl)
  \/ \E c \in Free, key \in Keys : Delete(c, key)
  \/ \E c \in Free, match \in MatchArgs : DeleteAll(c, match)
  \/ \E c \in Free : Any(c)
  \/ \E c \in Free : Stats(c)
  \/ \E c \in Pending : \E response \in ResponsesFor(calls[c].op) : Respond(c, response)
  \/ \E c \in CallIds : Release(c)
  \/ \E i \in Unused, args \in ListArgs : List(i, args[1], args[2])
  \/ \E i \in IterIds : IterNext(i)
  \/ \E i \in Awaiting : \E response \in ListResponses : ListRespond(i, response)

Spec == Init /\ [][Next]_vars

ListNext ==
  \/ \E i \in Unused, args \in ListArgs : List(i, args[1], args[2])
  \/ \E i \in IterIds : IterNext(i)
  \/ \E i \in Awaiting : \E response \in ListResponses : ListRespond(i, response)

ListSpec == Init /\ [][ListNext]_vars

\* the consumer keeps calling next() and the executor settles every promise
ListFairness ==
  \A i \in IterIds : WF_vars(IterNext(i)) /\ WF_vars(\E response \in ListResponses : ListRespond(i, response))

LiveListSpec == ListSpec /\ ListFairness

\* get, put and delete against the storing service
StoreNext ==
  \/ \E c \in Free, key \in StoreKeys : Get(c, key)
  \/ \E c \in Free, key \in StoreKeys, value \in StoreValues, ttl \in StoreTtls : Put(c, key, value, ttl)
  \/ \E c \in Free, key \in StoreKeys : Delete(c, key)
  \/ \E c \in Pending : Serve(c)
  \/ \E c \in CallIds : Release(c)

StoreSpec == Init /\ [][StoreNext]_vars

\* operations called concurrently on one client, answered in any order
ConcurrentNext ==
  \/ \E c \in CallIds, args \in ConcurrentCalls : Invoke(c, args[1], args[2], args[3], args[4], args[5])
  \/ \E c \in Pending : \E response \in ResponsesFor(calls[c].op) : Respond(c, response)
  \/ \E c \in CallIds : Release(c)

ConcurrentSpec == Init /\ [][ConcurrentNext]_vars

InitNext ==
  \E h \in InitIds, namespace \in Namespaces, apikey \in ApiKeys, region \in Regions :
    InitCall(h, namespace, apikey, region)

InitSpec == InitInit /\ [][InitNext]_vars

\* the init calls of the Cosmos-backed revisions, one after the other
CosmosKeys == {Undef, Str(<<"some-key">>)}

CosmosTokens == {Undef, Str(<<"some-token">>)}

CosmosNext ==
  \/ \E masterKey \in CosmosKeys, resourceToken \in CosmosTokens,
        partitionKey \in PartitionKeys \cup {Undef}, expiration \in Expirations :
       CosmosInit(masterKey, resourceToken, partitionKey, expiration)
  \/ \E masterKey \in CosmosKeys, resourceToken \in CosmosTokens,
        partitionKey \in PartitionKeys \cup {Undef}, expiration \in Expirations :
       ByoInit(masterKey, resourceToken, partitionKey, expiration)
  \/ \E status \in TvmStatuses, partitionKey \in PartitionKeys, expiration \in Expirations \ {Undef} :
       OwInit(status, partitionKey, expiration)

CosmosSpec == Init /\ [][CosmosNext]_vars

\* a process that calls init until it has an instance, then calls its operations
LogProcesses ==
  { Process(owNamespace, owApiKey, "prod", Undef, ALLOWED_REGIONS[1]) :
      owNamespace \in {Undef, Str(<<"ow-namespace">>)}, owApiKey \in {Undef, Str(<<"ow-api-key">>)} }

LogInit == InitInit /\ process \in LogProcesses

LogRegions == {Undef, Str(<<"some-invalid-region">>)}

LogKeys == {Str(<<"k">>), Str(<<>>)}

LogValues == {Str(<<"v">>), Num(5)}

LogTtls == {Undef, Num(-1)}

LogStatuses == {200, 401, 404, 500}

LogResponses(op) == {response \in ResponsesFor(op) : response.rejected \/ response.status \in LogStatuses}

LogListArgs == {<<Undef, Undef>>, <<Str(<<"b", "!">>), Undef>>}

LogListResponses ==
  {response \in ListResponses : response.rejected \/ (response.status \in LogStatuses /\ response.cursor \in {Undef, Num(0), Num(1)})}

HasInstance == client # NoInstance

LogNext ==
  \/ \E h \in InitIds, namespace \in Namespaces, apikey \in ApiKeys, region \in LogRegions :
       InitClient(h, namespace, apikey, region)
  \/ \E c \in Free, key \in LogKeys : HasInstance /\ Get(c, key)
  \/ \E c \in Free, key \in LogKeys, value \in LogValues, ttl \in LogTtls : HasInstance /\ Put(c, key, value, ttl)
  \/ \E c \in Free, key \in LogKeys : HasInstance /\ Delete(c, key)
  \/ \E c \in Free, match \in {Str(<<"*">>), Undef} : HasInstance /\ DeleteAll(c, match)
  \/ \E c \in Free : HasInstance /\ Any(c)
  \/ \E c \in Free : HasInstance /\ Stats(c)
  \/ \E c \in Pending : \E response \in LogResponses(calls[c].op) : Respond(c, response)
  \/ \E c \in CallIds : Release(c)
  \/ \E i \in Unused, args \in LogListArgs : HasInstance /\ List(i, args[1], args[2])
  \/ \E i \in IterIds : IterNext(i)
  \/ \E i \in Awaiting : \E response \in LogListResponses : ListRespond(i, response)

LogSpec == LogInit /\ [][LogNext]_vars

(***************************************************************************)
(* Properties                                                              *)
(***************************************************************************)
Answered(call) == call.st = "settled" /\ call.nreq = 1

NotFound(response) == ~response.rejected /\ response.status = 404

ErrorStatus(response) ==
  ~response.rejected /\ response.status \notin 200..299 /\ response.status # 404

Last(seq) == seq[Len(seq)]

ContainerPath == <<Str(<<"containers">>), client.namespace>>

ClaimedCode(status) ==
  IF status = 401 THEN "ERROR_UNAUTHORIZED"
  ELSE IF status = 403 THEN "ERROR_BAD_CREDENTIALS"
  ELSE IF status = 413 THEN "ERROR_PAYLOAD_TOO_LARGE"
  ELSE IF status = 429 THEN "ERROR_REQUEST_RATE_TOO_HIGH"
  ELSE "ERROR_INTERNAL"

\* C2: a non-2xx answer other than 404 always makes the operation fail, with the
\* error code its status alone determines (401, 403, 413, 429, anything else
\* ERROR_INTERNAL), for the six operations and for a list page.
C2_ErrorStatusFails ==
  /\ \A c \in CallIds :
       (Answered(calls[c]) /\ ErrorStatus(calls[c].response)) =>
         /\ calls[c].outcome.kind = "threw"
         /\ calls[c].outcome.error.name = "AdobeStateLibError"
         /\ calls[c].outcome.error.code = ClaimedCode(calls[c].response.status)
  /\ \A i \in IterIds :
       (Len(iters[i].got) > 0 /\ ErrorStatus(Last(iters[i].got))) =>
         /\ iters[i].st = "completed"
         /\ iters[i].error.name = "AdobeStateLibError"
         /\ iters[i].error.code = ClaimedCode(Last(iters[i].got).status)
         /\ Len(iters[i].pages) = Len(iters[i].got) - 1

C2_Witness ==
  \E c \in CallIds :
    /\ calls[c].op = "put" /\ Answered(calls[c]) /\ calls[c].response.status = 429
    /\ calls[c].outcome.error.code = "ERROR_REQUEST_RATE_TOO_HIGH"

\* C3: when the executor rejects, the operation fails with an ERROR_INTERNAL error
\* whose details hold the underlying failure.
C3_TransportFailureIsInternal ==
  /\ \A c \in CallIds :
       (Answered(calls[c]) /\ calls[c].response.rejected) =>
         /\ calls[c].outcome.kind = "threw"
         /\ calls[c].outcome.error.code = "ERROR_INTERNAL"
         /\ calls[c].outcome.error.internal
  /\ \A i \in IterIds :
       (Len(iters[i].got) > 0 /\ Last(iters[i].got).rejected) =>
         /\ iters[i].error.code = "ERROR_INTERNAL"
         /\ iters[i].error.internal

C5_BadKeyRejected ==
  \A c \in CallIds :
    (calls[c].op \in {"get", "put", "delete"}
       /\ ~(IsString(calls[c].key) /\ REGEX_PATTERN_STORE_KEY(calls[c].key))) =>
      /\ calls[c].st = "settled"
      /\ calls[c].nreq = 0
      /\ calls[c].outcome.kind = "threw"
      /\ calls[c].outcome.error.code = "ERROR_BAD_ARGUMENT"

IsPage(response) == ~response.rejected /\ Ok(response)

\* the cursor parameter the k-th request of a generator must carry
ExpectedCursor(it, k) == IF k = 1 THEN Digits(0) ELSE ToStr(it.got[k - 1].cursor)

\* C6: in one list iteration the first request carries cursor 0, every later request
\* carries the cursor of the response just before it, and no request follows a
\* response whose cursor is 0 or whose status is 404.
C6_CursorForwarded ==
  \A i \in IterIds :
    LET it == iters[i]
    IN  /\ Len(it.sent) <= Len(it.got) + 1
        /\ \A k \in 1..Len(it.sent) : it.sent[k].url.query.cursor = ExpectedCursor(it, k)
        /\ \A k \in 1..Len(it.got) :
             (NotFound(it.got[k]) \/ (IsPage(it.got[k]) /\ it.got[k].cursor = Num(0))) => Len(it.sent) <= k

C6_Witness ==
  \E i \in IterIds :
    /\ Len(iters[i].sent) = 3
    /\ iters[i].sent[2].url.query.cursor = Digits(2)
    /\ iters[i].sent[3].url.query.cursor = Digits(1)

\* a response that ends the pages: a 404, or a page whose cursor is the number 0
EndOfPages(response) == NotFound(response) \/ (IsPage(response) /\ response.cursor = Num(0))

\* C7 (as amended): once the service has answered a list request with a page whose
\* cursor is the number 0, or with a 404, the iteration finishes: the generator
\* reports done (the consumer calling next() until then).
C7_Terminates ==
  \A i \in IterIds :
    (Len(iters[i].got) > 0 /\ EndOfPages(Last(iters[i].got))) ~> (iters[i].st = "completed")

C7_Witness ==
  \E i \in IterIds :
    /\ iters[i].st = "completed" /\ iters[i].error = NoError
    /\ Len(iters[i].got) = 2 /\ IsPage(Last(iters[i].got)) /\ Last(iters[i].got).cursor = Num(0)

\* C7 (as stated): an answer carrying cursor 0 or an equivalent end-of-pages value
\* (the string "0") or a 404 is the last request of the iteration.
C7_AnySentinelEnds ==
  \A i \in IterIds : \A k \in 1..Len(iters[i].got) :
    LET response == iters[i].got[k]
    IN  (NotFound(response) \/ (IsPage(response) /\ response.cursor \in {Num(0), Digits(0)}))
          => Len(iters[i].sent) <= k

\* the pages of the 2xx responses a generator received, in order
RECURSIVE PagesOf(_)
PagesOf(got) ==
  IF got = <<>> THEN <<>>
  ELSE IF IsPage(Head(got)) THEN <<Head(got).page>> \o PagesOf(Tail(got))
  ELSE PagesOf(Tail(got))

RECURSIVE Flatten(_)
Flatten(pages) == IF pages = <<>> THEN <<>> ELSE Head(pages) \o Flatten(Tail(pages))

EndedNotFound(it) == Len(it.got) > 0 /\ NotFound(Last(it.got))

\* C8 (as amended): the pages a list iteration yields are, in order and one for one,
\* the keys arrays of the 2xx responses, followed by one empty page when the
\* iteration ended on a 404; the concatenation of the yielded keys is the
\* concatenation of the keys the service returned.
C8_PagesAsReturned ==
  \A i \in IterIds :
    /\ iters[i].pages = PagesOf(iters[i].got) \o (IF EndedNotFound(iters[i]) THEN << <<>> >> ELSE <<>>)
    /\ Flatten(iters[i].pages) = Flatten(PagesOf(iters[i].got))

C8_Witness ==
  \E i \in IterIds :
    /\ Len(iters[i].pages) = 3
    /\ iters[i].pages[1] = <<"b", "a", "b">>
    /\ iters[i].pages[2] = <<"b", "a", "b">>
    /\ EndedNotFound(iters[i])

\* C8 (as stated): the yielded pages are exactly the keys arrays of the 2xx responses.
C8_PagesOneForOne == \A i \in IterIds : iters[i].pages = PagesOf(iters[i].got)

\* C9: every generator has its own cursor starting at 0: with two generators of one
\* client interleaved, each request of a generator is built from that generator's
\* own options and the cursor of its own previous response, and its pages are the
\* pages of its own responses.
C9_IteratorsIndependent ==
  \A i \in IterIds :
    LET it == iters[i]
    IN  /\ (it.st = "awaiting") <=> (Len(it.sent) = Len(it.got) + 1)
        /\ it.st # "awaiting" => Len(it.sent) = Len(it.got)
        /\ \A k \in 1..Len(it.sent) :
             /\ it.sent[k].method = "GET"
             /\ it.sent[k].url.path = ContainerPath \o <<Str(<<"data">>)>>
             /\ it.sent[k].url.query =
                  [URLSearchParams(it.queryParams) EXCEPT !.cursor = ExpectedCursor(it, k)]
        /\ \A k \in 1..Len(it.got) :
             (k < Len(it.got) \/ it.st = "suspendedYield") =>
               /\ IsPage(it.got[k]) \/ (k = Len(it.got) /\ NotFound(it.got[k]))
        /\ Len(it.pages) = Len(PagesOf(it.got)) + (IF EndedNotFound(it) THEN 1 ELSE 0)
        /\ \A k \in 1..Len(PagesOf(it.got)) : it.pages[k] = PagesOf(it.got)[k]

C9_Witness ==
  /\ Len(iters["i1"].sent) = 2 /\ Len(iters["i2"].sent) = 1
  /\ iters["i1"].st = "awaiting" /\ iters["i2"].st = "suspendedYield"
  /\ iters["i1"].queryParams # iters["i2"].queryParams
  /\ iters["i1"].got[1].cursor = Num(1) /\ iters["i2"].got[1].cursor = Num(0)

\* C10 (as amended): put sends a ttl query parameter exactly when a ttl was supplied,
\* 0 included: with no ttl the request has no ttl parameter, and put(k, v, {ttl: 0})
\* issues the request of put(k, v) with ttl=0 added.
C10_TtlSentWhenSupplied ==
  \A c \in CallIds :
    (calls[c].op = "put" /\ calls[c].nreq = 1) =>
      /\ calls[c].request.url.query.ttl = (IF calls[c].ttl = Undef THEN NoParam ELSE ToStr(calls[c].ttl))
      /\ calls[c].request =
           [putStart(client, calls[c].key, calls[c].value, Undef).request
              EXCEPT !.url.query.ttl = calls[c].request.url.query.ttl]

C10_Witness ==
  \E c \in CallIds :
    /\ calls[c].op = "put" /\ calls[c].st = "pending" /\ calls[c].ttl = Num(0)
    /\ calls[c].request.url.query.ttl = Digits(0)

\* C10 (as stated): with ttl 0 or with no ttl the request carries no ttl parameter.
C10_ZeroTtlOmitted ==
  \A c \in CallIds :
    (calls[c].op = "put" /\ calls[c].nreq = 1 /\ calls[c].ttl \in {Undef, Num(0)}) =>
      calls[c].request.url.query.ttl = NoParam

(***************************************************************************)
(* put: the ttl and the value                                              *)
(***************************************************************************)
ValidKey(key) == IsString(key) /\ REGEX_PATTERN_STORE_KEY(key)

\* a ttl put is documented to take: an integer of 0..MAX_TTL_SECONDS
TtlInRange(ttl) == IsInteger(ttl) /\ ttl.n >= 0 /\ ttl.n <= MAX_TTL_SECONDS

Rejected(call) ==
  /\ call.st = "settled"
  /\ call.nreq = 0
  /\ call.outcome.kind = "threw"
  /\ call.outcome.error.code = "ERROR_BAD_ARGUMENT"

C12_NonStringValueRejected ==
  \A c \in CallIds :
    (calls[c].op = "put" /\ ~IsString(calls[c].value)) => Rejected(calls[c])

\* C13: list called with a countHint that is not an integer of 100..1000 throws
\* ERROR_BAD_ARGUMENT itself, returning no generator and issuing no request; with an
\* integer of that range (and a well-formed match) it returns a generator.
C13_CountHintValidated ==
  \A i \in IterIds :
    LET countHint == iters[i].options.countHint
        inRange == IsInteger(countHint) /\ countHint.n >= MIN_LIST_COUNT_HINT
                     /\ countHint.n <= MAX_LIST_COUNT_HINT
    IN  (iters[i].st # "none" /\ countHint # Undef) =>
          /\ ~inRange => /\ iters[i].st = "threw"
                         /\ iters[i].nreq = 0
                         /\ iters[i].error.code = "ERROR_BAD_ARGUMENT"
          /\ (inRange /\ ListSchema(listQueryParams(iters[i].options.match, countHint)))
                => iters[i].st # "threw"

(***************************************************************************)
(* init                                                                    *)
(***************************************************************************)
Called(h) == stores[h].st # "none"

Made(h) == stores[h].st = "returned"

Refused(h) ==
  /\ stores[h].st = "threw"
  /\ stores[h].error.code = "ERROR_BAD_ARGUMENT"
  /\ stores[h].instance = NoInstance

\* the namespace and the apikey init works with are strings
GoodCredentials(h) ==
  /\ IsString(stores[h].credentials.namespace)
  /\ IsString(stores[h].credentials.apikey)

\* the call names no region or a region of the allow-list
GoodRegion(h) == stores[h].given.region = Undef \/ InAllowList(stores[h].given.region)

\* C15: two init calls that return, with the same credentials or not, return two
\* different objects, each with an executor of its own, and each instance is what its
\* own call's credentials and the process determine, whatever the other call was.
C15_FreshInstances ==
  /\ \A h \in InitIds :
       Made(h) =>
         /\ stores[h].instance.ref # stores[h].instance.fetchRetry
         /\ stores[h].instance = init(stores[h].given, process, stores[h].instance.ref).instance
  /\ \A g, h \in InitIds :
       (g # h /\ Made(g) /\ Made(h)) =>
         {stores[g].instance.ref, stores[g].instance.fetchRetry}
           \cap {stores[h].instance.ref, stores[h].instance.fetchRetry} = {}

C15_Witness ==
  /\ Made("h1") /\ Made("h2")
  /\ stores["h1"].given = fakeCredentials
  /\ stores["h2"].given = fakeCredentials

\* C17 (as stated): with an endpoint override configured, init called with good
\* credentials and no region or a region of the allow-list returns a client whose
\* endpoint is the override, in prod and in stage.
C17_OverrideAlwaysWins ==
  \A h \in InitIds :
    (Called(h) /\ Truthy(process.CUSTOM_ENDPOINT) /\ GoodCredentials(h) /\ GoodRegion(h)) =>
      /\ Made(h)
      /\ stores[h].instance.endpoint = <<process.CUSTOM_ENDPOINT>>

\* the URL of an environment for a region
EndpointOf(env, region) ==
  <<Str(<<"https://storage-state-">>), region,
    IF env = "prod" THEN Str(<<".app-builder.adp.adobe.io">>) ELSE Str(<<".stg.app-builder.adp.adobe.io">>)>>

\* the region a call asks for: the one it names, else the first of the allow-list
RegionOf(h) == IF stores[h].given.region = Undef THEN ALLOWED_REGIONS[1] ELSE stores[h].given.region

FromEnvironment(h) ==
  /\ stores[h].credentials.namespace = process.OW_NAMESPACE
  /\ stores[h].credentials.apikey = process.OW_API_KEY

AsGiven(h) ==
  /\ stores[h].credentials.namespace = stores[h].given.namespace
  /\ stores[h].credentials.apikey = stores[h].given.apikey

\* C20 (as amended): init takes the namespace and the apikey from the environment
\* (__OW_NAMESPACE, __OW_API_KEY) only when the credentials hold neither of the two,
\* and then takes both; when either is given, both are used as given and the
\* environment is not read, so a missing one stays missing.  A client that is made
\* has the namespace and the apikey so resolved.
C20_EnvironmentWhenNeitherGiven ==
  \A h \in InitIds :
    Called(h) =>
      /\ IF ~Truthy(stores[h].given.namespace) /\ ~Truthy(stores[h].given.apikey)
           THEN FromEnvironment(h)
           ELSE AsGiven(h)
      /\ Made(h) => /\ stores[h].instance.namespace = stores[h].credentials.namespace
                    /\ stores[h].instance.apikey = stores[h].credentials.apikey

C20_Witness ==
  \E h \in InitIds :
    /\ Made(h)
    /\ stores[h].given.namespace = Undef /\ stores[h].given.apikey = Undef
    /\ stores[h].instance.namespace = Str(<<"ow-namespace">>)
    /\ stores[h].instance.apikey = Str(<<"ow-api-key">>)

\* C20 (as stated): each of the two fields that the credentials do not hold is taken
\* from its environment variable, and a field they hold is kept.
C20_EachFieldFromEnvironment ==
  \A h \in InitIds :
    Called(h) =>
      /\ stores[h].credentials.namespace =
           (IF Truthy(stores[h].given.namespace) THEN stores[h].given.namespace ELSE process.OW_NAMESPACE)
      /\ stores[h].credentials.apikey =
           (IF Truthy(stores[h].given.apikey) THEN stores[h].given.apikey ELSE process.OW_API_KEY)

(***************************************************************************)
(* the client's configuration                                              *)
(***************************************************************************)
\* Authorization: Basic base64(apikey)
BasicAuth(apikey) == [scheme |-> "Basic", credentials |-> Base64(apikey)]

\* C16: whatever operations are called, the client keeps the namespace, apikey,
\* region, endpoint and auth header (and executor) it was constructed with, and every
\* request handed to the executor, by an operation or by a list generator, carries
\* Authorization: Basic base64(apikey) and goes to the client's endpoint.
C16_ConfigKept ==
  /\ client = FakeClient
  /\ client.basicAuthHeader = BasicAuth(fakeCredentials.apikey)
  /\ \A c \in CallIds :
       calls[c].nreq = 1 =>
         /\ calls[c].request.Authorization = BasicAuth(fakeCredentials.apikey)
         /\ calls[c].request.url.endpoint = FakeClient.endpoint
  /\ \A i \in IterIds : \A k \in 1..Len(iters[i].sent) :
       /\ iters[i].sent[k].Authorization = BasicAuth(fakeCredentials.apikey)
       /\ iters[i].sent[k].url.endpoint = FakeClient.endpoint

C16_Witness ==
  \E i \in IterIds :
    /\ Len(iters[i].sent) = 2
    /\ iters[i].sent[2].Authorization = BasicAuth(Str(<<"some-api-key">>))

FailedOnStatus(call) ==
  /\ Answered(call)
  /\ ErrorStatus(call.response)
  /\ call.outcome.kind = "threw"

\* the parameters the error details of an operation are documented to carry
DocumentedDetails(call) ==
  CASE call.op \in {"get", "delete"} -> [NoParams EXCEPT !.key = Prop(call.key)]
    [] call.op = "put" ->
         [NoParams EXCEPT !.key = Prop(call.key), !.valueLength = Prop(ValueLength(call.value)),
                          !.ttl = Opt(call.ttl)]
    [] OTHER -> NoParams

\* C21: an error raised from a non-2xx response carries the parameters of the
\* operation (for put the key, the length of the value and the options, and not the
\* value; for list the match, the countHint and the cursor of the request) and the
\* x-request-id header of the response.
C21_DetailsCarryParameters ==
  /\ \A c \in CallIds :
       FailedOnStatus(calls[c]) =>
         /\ calls[c].outcome.error.sdkDetails =
              [DocumentedDetails(calls[c]) EXCEPT !.requestId = calls[c].response.requestId]
         /\ calls[c].outcome.error.sdkDetails.value = NoParam
  /\ \A i \in IterIds :
       (iters[i].error.name = "AdobeStateLibError" /\ Len(iters[i].got) > 0) =>
         iters[i].error.sdkDetails =
           [listParams(iters[i].queryParams, iters[i].cursor)
              EXCEPT !.requestId = Last(iters[i].got).requestId]

(***************************************************************************)
(* one invocation of the executor per operation                            *)
(***************************************************************************)
\* the arguments of the call are the ones the operation is documented to take
ValidArguments(call) ==
  CASE call.op \in {"get", "delete"} -> ValidKey(call.key)
    [] call.op = "put" ->
         ValidKey(call.key) /\ IsString(call.value) /\ (call.ttl = Undef \/ TtlInRange(call.ttl))
    [] call.op = "deleteAll" -> IsString(call.match) /\ REGEX_PATTERN_MATCH_KEY(call.match)
    [] OTHER -> TRUE

\* the call threw before it had anything to await
FailedValidation(call) == call.st = "settled" /\ call.response = NoResponse

\* C22: get, put, delete, deleteAll, any and stats invoke the executor once when their
\* arguments are valid and not at all when validation fails, and never again once the
\* answer is there, whatever it is: a 429 fails the call after its one request.
C22_OneInvocation ==
  \A c \in CallIds :
    calls[c].op # "none" =>
      /\ calls[c].nreq \in {0, 1}
      /\ ValidArguments(calls[c]) => calls[c].nreq = 1
      /\ FailedValidation(calls[c]) => calls[c].nreq = 0 /\ calls[c].request = NoRequest
      /\ calls[c].nreq = 0 => FailedValidation(calls[c]) /\ calls[c].outcome.kind = "threw"
      /\ (calls[c].nreq = 1 /\ calls[c].st = "settled") => calls[c].response # NoResponse
      /\ (calls[c].st = "settled" /\ ~calls[c].response.rejected /\ calls[c].response.status = 429) =>
            /\ calls[c].outcome.kind = "threw"
            /\ calls[c].outcome.error.code = "ERROR_REQUEST_RATE_TOO_HIGH"

C22_Witness ==
  \E c \in CallIds :
    /\ calls[c].op = "deleteAll" /\ calls[c].st = "settled" /\ calls[c].nreq = 1
    /\ calls[c].response.status = 429
    /\ calls[c].outcome.error.code = "ERROR_REQUEST_RATE_TOO_HIGH"

(***************************************************************************)
(* what put resolves with                                                  *)
(***************************************************************************)
\* C23: put returns its key exactly when the answer to its request is 2xx; on every
\* other status, 404 included, it fails with an error of the library and returns
\* nothing.
C23_PutKeyOnlyOn2xx ==
  \A c \in CallIds :
    (calls[c].op = "put" /\ Answered(calls[c]) /\ ~calls[c].response.rejected) =>
      /\ Ok(calls[c].response) <=>
           /\ calls[c].outcome.kind = "returned"
           /\ calls[c].outcome.result = Result("key", calls[c].key)
      /\ ~Ok(calls[c].response) =>
           /\ calls[c].outcome.kind = "threw"
           /\ calls[c].outcome.error.name = "AdobeStateLibError"

(***************************************************************************)
(* the URL a delete is sent to                                             *)
(***************************************************************************)
\* the URL of one key: the container, /data, and the key as its own last segment
KeyUrlPath(path, key) ==
  /\ Len(path) = Len(ContainerPath) + 2
  /\ SubSeq(path, 1, Len(ContainerPath)) = ContainerPath
  /\ path[Len(ContainerPath) + 1] = Str(<<"data">>)
  /\ path[Len(path)] = ToStr(key)
  /\ StrLen(path[Len(path)]) > 0

\* C24: a delete never sends its DELETE to the URL of the container: whatever the key
\* argument (the empty string, undefined, null, '.', '..'), it sends it to the URL of
\* that one key, /containers/{namespace}/data/{key}, or fails without a request.
C24_DeleteTargetsOneKey ==
  \A c \in CallIds :
    calls[c].op = "delete" =>
      \/ calls[c].nreq = 0 /\ calls[c].request = NoRequest
      \/ /\ calls[c].request.method = "DELETE"
         /\ KeyUrlPath(calls[c].request.url.path, calls[c].key)

(***************************************************************************)
(* the requests of a list                                                  *)
(***************************************************************************)
\* the generator is finished: it returned or it threw
Finished(it) == it.st = "completed"

\* C25: list issues no request when it is called; a request is issued only by a next()
\* call that resumes the generator, one per call, the generator then being suspended
\* at a yield or finished before the following call; and a generator that reported
\* done or threw issues no request at any later next().
C25_RequestsOnlyOnNext ==
  [][\A i \in IterIds :
       /\ iters[i].st = "none" => iters'[i].nreq = 0 /\ iters'[i].sent = <<>>
       /\ iters'[i].nreq \in {iters[i].nreq, iters[i].nreq + 1}
       /\ iters'[i].nreq = iters[i].nreq + 1 =>
            /\ iters[i].st \in {"suspendedStart", "suspendedYield"}
            /\ iters'[i].st = "awaiting"
            /\ Len(iters'[i].sent) = Len(iters[i].sent) + 1
       /\ iters'[i].nreq = iters[i].nreq => iters'[i].sent = iters[i].sent
       /\ Finished(iters[i]) => iters'[i] = iters[i]]_vars

C25_Witness ==
  \E i, j \in IterIds :
    /\ Finished(iters[i]) /\ iters[i].error = NoError /\ iters[i].nreq = 1 /\ Len(iters[i].pages) = 1
    /\ Finished(iters[j]) /\ iters[j].error # NoError /\ iters[j].nreq = 1

(***************************************************************************)
(* a page request that fails                                               *)
(***************************************************************************)
\* the answer makes _wrap throw: an error status, or the executor rejected
FailedPage(response) == response.rejected \/ ErrorStatus(response)

\* C26: when a page request of a list fails (an error status or a transport failure),
\* the next() that issued it throws the failure, the pages yielded before stay as they
\* are, and the generator is finished: it issues no request and yields no page after.
C26_FailedPageEndsIteration ==
  [][\A i \in IterIds :
       /\ (iters[i].st = "awaiting" /\ iters'[i].st # "awaiting" /\ FailedPage(Last(iters'[i].got))) =>
            /\ iters'[i].st = "completed"
            /\ iters'[i].error.name = IF Last(iters'[i].got).rejected THEN "Error" ELSE "AdobeStateLibError"
            /\ iters'[i].pages = iters[i].pages
            /\ iters'[i].nreq = iters[i].nreq
       /\ \A k \in 1..Len(iters'[i].got) : FailedPage(iters'[i].got[k]) => k = Len(iters'[i].got)
       /\ (Len(iters[i].got) > 0 /\ FailedPage(Last(iters[i].got))) => iters'[i] = iters[i]]_vars

C26_Witness ==
  \E i \in IterIds :
    /\ Len(iters[i].got) = 2 /\ FailedPage(iters[i].got[2]) /\ ~iters[i].got[2].rejected
    /\ iters[i].pages = << <<"b", "a", "b">> >>
    /\ iters[i].st = "completed" /\ iters[i].error.code = "ERROR_INTERNAL"
    /\ iters[i].nreq = 2

(***************************************************************************)
(* operations pending together                                             *)
(***************************************************************************)
\* the call as the client of the unit tests would make it with nothing else pending
AloneStart(call) == Started(FakeClient, call.op, call.key, call.value, call.ttl, call.match)

\* C27: operations pending together on one client are independent: each call issues
\* the request it would issue alone, one of its own even when an identical call is
\* pending, the client is left as it was, and a call's result is what its own
\* arguments and the answer to its own request give, in whatever order the answers
\* arrive.
C27_ConcurrentCallsIndependent ==
  /\ client = FakeClient
  /\ \A c \in CallIds :
       calls[c].op # "none" =>
         /\ calls[c].request = AloneStart(calls[c]).request
         /\ calls[c].params = AloneStart(calls[c]).params
         /\ calls[c].nreq = (IF AloneStart(calls[c]).outcome.kind = "threw" THEN 0 ELSE 1)
         /\ calls[c].st = "pending" => calls[c].nreq = 1 /\ calls[c].outcome = NoOutcome
         /\ calls[c].st = "settled" =>
              calls[c].outcome =
                (IF calls[c].nreq = 0 THEN AloneStart(calls[c]).outcome
                 ELSE Settle([IdleCall EXCEPT !.op = calls[c].op, !.key = calls[c].key,
                                              !.params = AloneStart(calls[c]).params],
                             calls[c].response))

\* two identical calls pending together, the later one answered first
C27_Witness ==
  /\ calls["c1"].op = "get" /\ calls["c1"].st = "pending" /\ calls["c1"].nreq = 1
  /\ calls["c2"].op = "get" /\ calls["c2"].st = "settled" /\ calls["c2"].nreq = 1
  /\ calls["c1"].key = calls["c2"].key
  /\ calls["c1"].request = calls["c2"].request
  /\ calls["c2"].outcome.kind = "returned" /\ calls["c2"].outcome.result.v = Str(<<"v">>)

\* the last step ran CosmosStateStore.init on the cache as the step found it, and it returned
RanCosmosInit ==
  /\ cosmosInit'.n = cosmosInit.n + 1
  /\ cosmosInit'.by \in {"CosmosStateStore.init", "init ow"}
  /\ cosmosInit'.outcome.kind = "returned"

\* the store each other partition key has is left where it is
OthersKept(partitionKey) ==
  \A other \in PartitionKeys \ {partitionKey} : inMemoryInstance'[other] = inMemoryInstance[other]

CachedInstanceStep ==
  LET credentials == cosmosInit'.credentials
      cachedRef == inMemoryInstance[credentials.partitionKey]
      newRef == Len(cosmosStores) + 1
  IN  (RanCosmosInit /\ cachedRef # 0) =>
        IF cosmosStores[cachedRef].expiration = credentials.expiration
          THEN /\ cosmosInit'.outcome.value = [t |-> "CosmosStateStore", ref |-> cachedRef]
               /\ cosmosClients' = cosmosClients
               /\ cosmosStores' = cosmosStores
               /\ inMemoryInstance' = inMemoryInstance
          ELSE /\ cosmosInit'.outcome.value = [t |-> "CosmosStateStore", ref |-> newRef]
               /\ Len(cosmosClients') = Len(cosmosClients) + 1
               /\ cosmosStores' = Append(cosmosStores, [container |-> Len(cosmosClients'),
                                                         partitionKey |-> credentials.partitionKey,
                                                         expiration |-> credentials.expiration])
               /\ inMemoryInstance'[credentials.partitionKey] = newRef
               /\ OthersKept(credentials.partitionKey)

\* C28: a CosmosStateStore.init call that finds an instance cached under the
\* partition key of its credentials returns that very instance and makes no
\* Cosmos client when the instance's expiration is the credentials'; when the
\* two differ it makes a new client and a new instance, caches the new
\* instance under the partition key in place of the old one and returns it.
C28_CachedInstanceReused == [][CachedInstanceStep]_vars

\* three calls for one partition key: two made an instance each, with different
\* expirations, and the last, with a master key, was given the second instance,
\* whose client holds a resource token
C28_Witness ==
  /\ cosmosInit.n = 3
  /\ cosmosInit.by = "CosmosStateStore.init"
  /\ Len(cosmosStores) = 2
  /\ cosmosStores[1].partitionKey = cosmosStores[2].partitionKey
  /\ cosmosStores[1].expiration # cosmosStores[2].expiration
  /\ cosmosInit.outcome.value = [t |-> "CosmosStateStore", ref |-> 2]
  /\ cosmosInit.credentials.expiration = cosmosStores[2].expiration
  /\ Truthy(cosmosInit.credentials.masterKey)
  /\ cosmosClients[2].auth = "tokenProvider"

\* the last step was init({ cosmos }) and it returned
RanByoInit ==
  /\ cosmosInit'.n = cosmosInit.n + 1
  /\ cosmosInit'.by = "init cosmos"
  /\ cosmosInit'.outcome.kind = "returned"

ByoInitStep ==
  RanByoInit =>
    /\ cosmosInit'.outcome.value = [t |-> "CosmosStateStore", ref |-> Len(cosmosStores) + 1]
    /\ Len(cosmosStores') = Len(cosmosStores) + 1
    /\ Len(cosmosClients') = Len(cosmosClients) + 1

\* C29: an init with the caller's own Cosmos credentials that returns gives an
\* instance that did not exist before the call, and has made one new Cosmos
\* client for it, whatever the earlier calls cached.
C29_ByoInitNeverReuses == [][ByoInitStep]_vars

\* the line prints the api key, or the Authorization header made of it
Shows(line, apikey) ==
  \/ apikey \in line.values
  \/ line.reqOptions.Authorization = BasicAuth(apikey)
  \/ line.reqOptions.Authorization.credentials = Base64(apikey)

\* the log and the error of an init call keep the api key the call works with out
InitKeepsSecret(store) ==
  Truthy(store.credentials.apikey) =>
    /\ \A line \in InitLog(store, process) : ~Shows(line, store.credentials.apikey)
    /\ store.st = "threw" => store.credentials.apikey \notin PrintedCredentials(store.error.sdkDetails)

\* the log and the error of a call keep the api key of the client out
CallKeepsSecret(call) ==
  /\ \A line \in CallLog(call) : ~Shows(line, client.apikey)
  /\ call.outcome.kind = "threw" => client.apikey \notin Printed(call.outcome.error.sdkDetails)

IterKeepsSecret(it) ==
  /\ \A line \in IterLog(it) : ~Shows(line, client.apikey)
  /\ it.error # NoError => client.apikey \notin Printed(it.error.sdkDetails)

\* C30: when init works with an api key (given or of the environment), neither
\* the lines it logs nor the details of the error it throws hold the key; and
\* for a client made with an api key, no line an operation logs and no details
\* of an error an operation throws hold the key or the Authorization header
\* made of it.
C30_SecretsStayOut ==
  /\ \A h \in InitIds : InitKeepsSecret(stores[h])
  /\ Truthy(client.apikey) =>
       /\ \A c \in CallIds : CallKeepsSecret(calls[c])
       /\ \A i \in IterIds : IterKeepsSecret(iters[i])

\* an init given an api key threw, another one made the client with the api key
\* of the environment, and a put of that client, sent with the Authorization
\* header, was answered 401 and threw with the request id in its details
C30_Witness ==
  /\ stores["h1"].st = "threw"
  /\ stores["h1"].given.apikey = Str(<<"some-api-key">>)
  /\ stores["h2"].st = "returned"
  /\ client = stores["h2"].instance
  /\ client.apikey = Str(<<"ow-api-key">>)
  /\ \E c \in CallIds :
       /\ calls[c].op = "put"
       /\ calls[c].request.Authorization = BasicAuth(client.apikey)
       /\ calls[c].response.status = 401
       /\ calls[c].outcome.kind = "threw"
       /\ calls[c].outcome.error.sdkDetails.requestId = Str(<<"fake-req-id">>)
       /\ Cardinality(CallLog(calls[c])) = 4

====
